---------------------------- MODULE Spec2Model ----------------------------
(***************************************************************************)
(* A model of youtube_audio_downloader.py: the video lister                *)
(* (_get_videos_from_url), the filename sanitizer (_make_filesafe_title),  *)
(* the channel resolver (get_channel_videos with the search and            *)
(* quick-select handlers of main), and the download orchestrator           *)
(* (download_video, its two backend hooks and the batch loop of main).     *)
(*                                                                         *)
(* Strings the program inspects (titles, inputs, URLs, channel ids) are    *)
(* sequences of tokens, one token per character or per literal piece, so   *)
(* that startswith, strip, slicing and len are computed as the code does.  *)
(* The extraction backend (yt-dlp) is the environment: every call to it    *)
(* answers with any response of a small set, or raises.                    *)
(***************************************************************************)
EXTENDS Integers, Sequences, FiniteSets, TLC

VARIABLES
    \* ---- video lister, called on its own
    channel_info,      \* the backend's answer to extract_info(channel_url)
    max_results,       \* the max_results argument
    listed,            \* outcome of _get_videos_from_url, or Pending
    \* ---- filename sanitizer, called on its own
    titles,            \* <<title, sanitize(title), sanitize(sanitize(title)), ..>>
    \* ---- duration formatter, called on its own
    seconds,           \* the argument of format_duration
    duration_str,      \* what format_duration returned, <<>> before the call
    \* ---- channel resolver: the search and quick-select handlers of main
    pc,                \* where the running handler stands ("idle": none runs)
    handler,           \* the handler that runs, or ran last
    search_term,       \* the input of the search handler (<<>> for quick-select)
    channel_name,      \* get_channel_videos' channel_name argument
    channel_url,       \* the search-derived candidate URL
    url_index,         \* position of the for loop in possible_urls
    probes,            \* the backend calls of the handler, with their outcomes
    gcv_return,        \* what get_channel_videos returned to the handler, if called
    videos,            \* st.session_state.videos
    previous_videos,   \* st.session_state.videos when the handler started
    \* ---- download orchestrator: the batch loop of main and download_video
    dpc,               \* "idle", "next" (loop head), "backend" (in ydl.download), "done"
    checked,           \* the positions of the listing whose checkbox is ticked
    selected_videos,   \* the records whose checkbox is ticked, in listing order
    idx,               \* position of the batch loop in selected_videos (from 1)
    progress,          \* st.session_state.progress, the current-status cell
    events,            \* the events delivered by the backend call under way
    files,             \* the download directory: file name -> mtime
    attempts,          \* the download_video calls made, with their outcomes
    downloaded_files_list

listerVars == <<channel_info, max_results, listed>>
resolverVars == <<pc, handler, search_term, channel_name, channel_url, url_index,
                  probes, gcv_return, previous_videos>>
downloadVars == <<dpc, checked, selected_videos, idx, progress, events, files,
                  attempts, downloaded_files_list>>
formatVars == <<seconds, duration_str>>
vars == <<listerVars, titles, formatVars, resolverVars, videos, downloadVars>>

(***************************************************************************)
(* Bounds of the model.                                                    *)
(***************************************************************************)
MaxEntries == 3        \* longest backend entry list
MaxResultsArg == 3     \* largest max_results passed to the lister on its own
MaxTail == 3           \* free characters of a title (after the padding)
MaxApply == 2          \* how often the sanitizer is applied in a row
MaxEvents == 2         \* backend events delivered during one download
MaxSeconds == 3725     \* longest duration of the dense range of durations

(***************************************************************************)
(* Python values.                                                          *)
(***************************************************************************)
None == "<None>"                    \* None, or a key absent from a dict
EmptyStr == "<empty>"               \* the empty string ""
\* TruthyStr taking the empty string for a value
TruthyUnlessNone(x) == x # None
TruthyStr(x) == x # None /\ x # EmptyStr      \* truth value of an optional string

\* Take without the slice: the whole of s
TakeAll(s, n) == s

\* s[:n] for n >= 0
Take(s, n) == SubSeq(s, 1, IF n < Len(s) THEN n ELSE Len(s))

(***************************************************************************)
(* Video lister: _get_videos_from_url.                                     *)
(***************************************************************************)
\* Entries the backend lists.  A missing key is None for id, NoTitleKey for
\* title, the empty URL <<>> for url and -1 for duration (in seconds).
NoTitleKey == <<"<missing>">>
PlaceholderTitle == <<"x", "x", " ", "x", "x">>    \* the literal of line 207
EntryA == [id |-> "a", title |-> <<"a", "?">>, url |-> <<>>, duration |-> 65]
EntryB == [id |-> "b", title |-> NoTitleKey, url |-> <<"u_b">>, duration |-> -1]
EntryC == [id |-> "c", title |-> <<"a", " ", ".">>, url |-> <<>>, duration |-> 0]
EntryNoId == [id |-> None, title |-> <<"a">>, url |-> <<>>, duration |-> 3725]
EntryEmptyId == [id |-> EmptyStr, title |-> <<"a">>, url |-> <<>>, duration |-> 0]
Entries == {EntryA, EntryB, EntryNoId, EntryEmptyId}

RECURSIVE SeqsUpTo(_, _)
\* all sequences over S of length at most n
SeqsUpTo(S, n) ==
    IF n = 0 THEN {<<>>}
    ELSE LET shorter == SeqsUpTo(S, n - 1)
         IN  shorter \cup {Append(s, x) : s \in shorter, x \in S}

\* What ydl.extract_info(channel_url, download=False) can do: raise, answer
\* without an 'entries' key (or with nothing), or answer with entries.
Raises == [kind |-> "raise", entries |-> <<>>]
NoEntriesKey == [kind |-> "noentries", entries |-> <<>>]
WithEntries(es) == [kind |-> "entries", entries |-> es]
ListResponses ==
    {Raises, NoEntriesKey} \cup {WithEntries(es) : es \in SeqsUpTo(Entries, MaxEntries)}

\* Outcomes of _get_videos_from_url.
RaisedOutcome == [kind |-> "raise", videos |-> <<>>]
NoneOutcome == [kind |-> "none", videos |-> <<>>]
ListOutcome(vs) == [kind |-> "list", videos |-> vs]
Pending == [kind |-> "pending", videos |-> <<>>]

\* lines 207-217: the record built from one entry at enumerate position i
VideoRecord(entry, i) ==
    [index    |-> i,
     title    |-> IF entry.title = NoTitleKey THEN PlaceholderTitle ELSE entry.title,
     url      |-> IF entry.url # <<>> THEN entry.url ELSE <<"watch?v=", entry.id>>,
     id       |-> entry.id,
     duration |-> IF entry.duration = -1 THEN 0 ELSE entry.duration]

RECURSIVE EnumerateLoop(_, _, _)
\* lines 202-217: for i, entry in enumerate(entries, 1), with the list
\* `videos` built so far
EnumerateLoop(entries, i, built) ==
    IF entries = <<>> THEN built
    ELSE IF ~TruthyStr(Head(entries).id)
         THEN EnumerateLoop(Tail(entries), i + 1, built)
         ELSE EnumerateLoop(Tail(entries), i + 1,
                            Append(built, VideoRecord(Head(entries), i)))

\* lines 197-221
GetVideosFromUrl(info, maxres) ==
    IF info.kind = "raise" THEN RaisedOutcome
    ELSE IF info.kind = "entries"
         THEN LET built == EnumerateLoop(Take(info.entries, maxres), 1, <<>>)
              IN  IF built # <<>> THEN ListOutcome(built) ELSE NoneOutcome
         ELSE NoneOutcome

(***************************************************************************)
(* Filename sanitizer: _normalize_visible_text and _make_filesafe_title.   *)
(***************************************************************************)
MaxTitleLen == 150

\* Character classes of the model's alphabet.  "a" is any plain letter,
\* BOLD_A a mathematical bold letter (NFKD gives the plain letter), MARK a
\* combining mark (category Mn), CTL a control character that is not
\* whitespace, "?" one of the characters < > : " / \ | ? *.
Alphabet == {"a", " ", ".", "?", "CTL", "MARK", "BOLD_A"}
IsSpace(c) == c = " "                 \* \s of the regular expressions
IsForbidden(c) == c = "?"
IsControl(c) == c = "CTL"
IsMark(c) == c = "MARK"
Audio == <<"a", "u", "d", "i", "o">>

\* unicodedata.normalize('NFKD', .) of one character (every character of the
\* alphabet decomposes to a single character)
Nfkd(c) == IF c = "BOLD_A" THEN "a" ELSE c

NfkdAll(s) == [i \in 1..Len(s) |-> Nfkd(s[i])]

\* the positions of s that hold a character outside the set `stripped`
Whitespace == {" "}
Solid(s, stripped) == {i \in 1..Len(s) : s[i] \notin stripped}
First(S) == CHOOSE i \in S : \A j \in S : i <= j
Last(S) == CHOOSE i \in S : \A j \in S : j <= i

\* str.lstrip()
LStrip(s) ==
    LET solid == Solid(s, Whitespace)
    IN  IF solid = {} THEN <<>> ELSE SubSeq(s, First(solid), Len(s))

\* str.rstrip()
RStrip(s) ==
    LET solid == Solid(s, Whitespace)
    IN  IF solid = {} THEN <<>> ELSE SubSeq(s, 1, Last(solid))

\* str.strip()
Strip(s) == RStrip(LStrip(s))

\* str.rstrip('.')
RStripDots(s) ==
    LET solid == Solid(s, {"."})
    IN  IF solid = {} THEN <<>> ELSE SubSeq(s, 1, Last(solid))

\* re.sub(r"\s+", " ", s): of every run of whitespace only the first
\* character stays, as a space
CollapseSpaces(s) ==
    LET withPrev == [i \in 1..Len(s) |-> <<s[i], IF i = 1 THEN "^" ELSE s[i - 1]>>]
        kept == SelectSeq(withPrev, LAMBDA p : ~(IsSpace(p[1]) /\ IsSpace(p[2])))
    IN  [i \in 1..Len(kept) |-> IF IsSpace(kept[i][1]) THEN " " ELSE kept[i][1]]

\* lines 60-69
NormalizeVisibleText(text) ==
    IF text = <<>> THEN <<>>
    ELSE LET decomposed == NfkdAll(text)
             without_marks == SelectSeq(decomposed, LAMBDA c : ~IsMark(c))
         IN  Strip(CollapseSpaces(without_marks))

\* ReplaceForbidden without the substitution
KeepForbidden(s) == s

\* line 75: re.sub(r"[<>:\\/\\|?*\"]", " ", base)
ReplaceForbidden(s) == [i \in 1..Len(s) |-> IF IsForbidden(s[i]) THEN " " ELSE s[i]]

\* line 77: ''.join(ch for ch in base if ch >= ' ')
DropControl(s) == SelectSeq(s, LAMBDA c : ~IsControl(c))

\* line 79: re.sub(r"\s+", " ", base).strip().rstrip('.')
Tidy(s) == RStripDots(Strip(CollapseSpaces(s)))

\* Truncate without the limit
TruncateNever(s) == s

\* lines 81-82
Truncate(s) == IF Len(s) > MaxTitleLen THEN RStrip(SubSeq(s, 1, MaxTitleLen)) ELSE s

\* lines 71-84
MakeFilesafeTitle(title) ==
    LET norm == NormalizeVisibleText(title)
        base0 == IF norm = <<>> THEN Audio ELSE norm
        base == Truncate(Tidy(DropControl(ReplaceForbidden(base0))))
    IN  IF base = <<>> THEN Audio ELSE base

\* Titles tried: a run of plain letters (none, or so many that the free tail
\* crosses the length limit) followed by a free tail.
Padding(n) == [i \in 1..n |-> "a"]
PadLens == {0, MaxTitleLen - 2}
TitleInputs == {Padding(n) \o t : n \in PadLens, t \in SeqsUpTo(Alphabet, MaxTail)}

(***************************************************************************)
(* Duration formatter: format_duration, lines 223-236.                     *)
(***************************************************************************)
\* The argument is None (NoSeconds) or <<n>>, n a whole number of seconds.
NoSeconds == <<>>
UnknownDuration == <<"unknown">>      \* the literal of line 226
Digits == <<"0", "1", "2", "3", "4", "5", "6", "7", "8", "9">>

RECURSIVE Decimal(_)
\* f"{n}": the decimal digits of n >= 0
Decimal(n) ==
    IF n < 10 THEN <<Digits[n + 1]>>
    ELSE Decimal(n \div 10) \o <<Digits[(n % 10) + 1]>>

\* Pad2 without the padding: f"{n}"
Unpadded(n) == Decimal(n)

\* f"{n:02d}": the decimal digits of n >= 0, zero-padded to two at least
Pad2(n) == IF n < 10 THEN <<"0">> \o Decimal(n) ELSE Decimal(n)

\* lines 223-236
FormatDuration(arg) ==
    IF arg = NoSeconds \/ arg[1] = 0 THEN UnknownDuration
    ELSE LET whole == arg[1]                    \* int(float(seconds))
             hours == whole \div 3600
             minutes == (whole % 3600) \div 60
             secs == whole % 60
         IN  IF hours > 0
             THEN Decimal(hours) \o <<":">> \o Pad2(minutes) \o <<":">> \o Pad2(secs)
             ELSE Decimal(minutes) \o <<":">> \o Pad2(secs)

\* Durations tried: none, every whole number up to MaxSeconds, and some
\* around ten hours, a day and a hundred hours.
LongDurations == {35999, 36000, 86399, 86400, 360000}
DurationInputs ==
    {NoSeconds} \cup {<<n>> : n \in (0..MaxSeconds) \cup LongDurations}

(***************************************************************************)
(* Channel resolver: get_channel_videos, lines 118-187.                    *)
(***************************************************************************)
MaxResultsMain == 10      \* max_results of every call made by main

YouTube == "https://www.youtube.com/"
VideosSuffix == "/videos"

\* str.startswith(prefix) for a one-token prefix
StartsWith(s, prefix) == s # <<>> /\ s[1] = prefix

\* lines 168-173
PossibleUrls(name) ==
    << <<YouTube, "@">> \o name \o <<VideosSuffix>>,
       <<YouTube, "c/">> \o name \o <<VideosSuffix>>,
       <<YouTube, "user/">> \o name \o <<VideosSuffix>>,
       <<YouTube, "channel/">> \o name \o <<VideosSuffix>> >>

\* What ydl.extract_info("ytsearch1:<name>") can do: raise, answer with no
\* entry, or answer with a top hit whose channel_id and channel may be
\* missing (<<>>).
SearchRaises == [kind |-> "raise", channel_id |-> <<>>, channel |-> <<>>]
SearchNoHit == [kind |-> "nohit", channel_id |-> <<>>, channel |-> <<>>]
SearchHit(cid, ch) == [kind |-> "hit", channel_id |-> cid, channel |-> ch]
SearchResponses ==
    { SearchRaises, SearchNoHit,
      SearchHit(<<"@", "ted">>, <<"TED">>),
      SearchHit(<<"UC", "x1">>, <<"TED">>),
      SearchHit(<<"x2">>, <<>>),
      SearchHit(<<>>, <<"TED">>),
      SearchHit(<<>>, <<>>) }

\* lines 144-160: the candidate URL built from the top hit, <<>> for none
CandidateUrl(first_result) ==
    LET channel_id == IF first_result.channel_id # <<>>
                      THEN first_result.channel_id ELSE first_result.channel
        channel_name_found == first_result.channel
    IN  IF channel_id # <<>> \/ channel_name_found # <<>>
        THEN IF channel_id # <<>>
             THEN IF StartsWith(channel_id, "@") \/ StartsWith(channel_id, "UC")
                  THEN IF StartsWith(channel_id, "@")
                       THEN <<YouTube>> \o channel_id \o <<VideosSuffix>>
                       ELSE <<YouTube, "channel/">> \o channel_id \o <<VideosSuffix>>
                  ELSE <<YouTube, "channel/">> \o channel_id \o <<VideosSuffix>>
             ELSE IF channel_name_found # <<>>
                  THEN <<YouTube, "c/">> \o channel_name_found \o <<VideosSuffix>>
                  ELSE <<>>
        ELSE <<>>

\* lines 138-165: what the search query leads to
SearchQueryStep(info) ==
    IF info.kind = "hit" /\ CandidateUrl(info) # <<>>
    THEN [goto |-> "search_probe", url |-> CandidateUrl(info)]
    ELSE [goto |-> "pattern", url |-> <<>>]

\* SearchProbeStep without the try of lines 138-165: the exception leaves
\* get_channel_videos
SearchProbeStepUncaught(outcome) == [goto |-> "return", value |-> outcome]

\* lines 163-165: the probe of the search-derived candidate is returned as it
\* is, records or not; only an exception leads on to the patterns
SearchProbeStep(outcome) ==
    IF outcome.kind = "raise"
    THEN [goto |-> "pattern", value |-> Pending]
    ELSE [goto |-> "return", value |-> outcome]

\* PatternProbeStep without the return of line 179
PatternProbeStepNoStop(outcome) == [goto |-> "continue", value |-> Pending]

\* lines 176-181: one round of the for loop
PatternProbeStep(outcome) ==
    IF outcome.kind = "raise" THEN [goto |-> "continue", value |-> Pending]
    ELSE IF outcome.kind = "list" /\ outcome.videos # <<>>
         THEN [goto |-> "return", value |-> outcome]
         ELSE [goto |-> "continue", value |-> Pending]

\* The listings the backend answers a probe of the resolver with.
ProbeResponses ==
    { Raises, NoEntriesKey, WithEntries(<<>>),
      WithEntries(<<EntryA, EntryB>>), WithEntries(<<EntryNoId, EntryB>>) }

\* `if videos:` of lines 341 and 383, and what st.session_state.videos gets
HasVideos(outcome) == outcome.kind = "list" /\ outcome.videos # <<>>
SessionVideos(outcome) == IF HasVideos(outcome) THEN outcome ELSE NoneOutcome

\* Inputs of the search box and the presets of the quick-select buttons.
Inputs == { <<"TED">>, <<"bob">>, <<"http", "s://www.youtube.com/@TED/videos">> }

\* IsUrlShaped with the test of line 374 lost
IsUrlShapedNever(term) == FALSE

\* line 374: search_term.startswith('http')
IsUrlShaped(term) == StartsWith(term, "http")
QuickChannels ==
    { [channel_url |-> <<YouTube, "@", "EnglishPodcastZone", VideosSuffix>>,
       fallback_name |-> <<"English Podcast Zone">>],
      [channel_url |-> <<YouTube, "@", "LearnEnglishwithBobtheCanadian", VideosSuffix>>,
       fallback_name |-> <<"Learn English with Bob the Canadian">>] }

ListCall(url, outcome) == [call |-> "list", arg |-> url, outcome |-> outcome]
SearchCall(name, info) ==
    [call |-> "search", arg |-> name,
     outcome |-> [kind |-> info.kind, videos |-> <<>>]]

FormatOff ==
    /\ seconds = NoSeconds
    /\ duration_str = <<>>

ResolverOff ==
    /\ pc = "off"
    /\ handler = "none"
    /\ search_term = <<>>
    /\ channel_name = <<>>
    /\ channel_url = <<>>
    /\ url_index = 0
    /\ probes = <<>>
    /\ gcv_return = Pending
    /\ previous_videos = NoneOutcome

ListerOff ==
    /\ channel_info = Raises
    /\ max_results = 0
    /\ listed = Pending

DownloadOff ==
    /\ dpc = "off"
    /\ checked = {}
    /\ selected_videos = <<>>
    /\ idx = 0
    /\ progress = [unset |-> TRUE]
    /\ events = <<>>
    /\ files = {}
    /\ attempts = <<>>
    /\ downloaded_files_list = <<>>

InitResolve ==
    /\ pc = "idle"
    /\ handler = "none"
    /\ search_term = <<>>
    /\ channel_name = <<>>
    /\ channel_url = <<>>
    /\ url_index = 0
    /\ probes = <<>>
    /\ gcv_return = Pending
    /\ videos = NoneOutcome
    /\ previous_videos = NoneOutcome
    /\ ListerOff
    /\ titles = <<>>
    /\ FormatOff
    /\ DownloadOff

\* ReturnToCaller without the `else` of lines 347-350 and 386-388: a
\* resolution that found nothing leaves the listing as it was
ReturnToCallerKeepsListing(value) ==
    /\ gcv_return' = value
    /\ videos' = IF HasVideos(value) THEN value ELSE videos
    /\ pc' = "idle"
    /\ url_index' = 0
    /\ UNCHANGED <<handler, search_term, channel_name, channel_url, previous_videos>>

\* get_channel_videos returns `value` to the handler that called it, which
\* runs to its end: lines 379-391 (search) or 341-350 (quick_search).
ReturnToCaller(value) ==
    /\ gcv_return' = value
    /\ videos' = SessionVideos(value)
    /\ pc' = "idle"
    /\ url_index' = 0
    /\ UNCHANGED <<handler, search_term, channel_name, channel_url, previous_videos>>

\* lines 368-377, free text: get_channel_videos is entered
SearchFreeText ==
    /\ UNCHANGED <<listerVars, titles, formatVars, downloadVars>>
    /\ pc = "idle"
    /\ \E term \in Inputs :
         /\ ~IsUrlShaped(term)
         /\ search_term' = term
         /\ channel_name' = term
    /\ handler' = "search"
    /\ pc' = "search_query"
    /\ probes' = <<>>
    /\ channel_url' = <<>>
    /\ gcv_return' = Pending
    /\ previous_videos' = videos
    /\ UNCHANGED <<url_index, videos>>

\* lines 368-398, input shaped as a URL: one listing, no fallback
SearchUrl ==
    /\ UNCHANGED <<listerVars, titles, formatVars, downloadVars>>
    /\ pc = "idle"
    /\ \E term \in Inputs, info \in ProbeResponses :
         LET outcome == GetVideosFromUrl(info, MaxResultsMain)
         IN  /\ IsUrlShaped(term)
             /\ search_term' = term
             /\ probes' = <<ListCall(term, outcome)>>
             /\ videos' = SessionVideos(outcome)
    /\ handler' = "search"
    /\ channel_name' = <<>>
    /\ channel_url' = <<>>
    /\ gcv_return' = Pending
    /\ previous_videos' = videos
    /\ UNCHANGED <<pc, url_index>>

\* lines 139-165: the search query
SearchQuery ==
    /\ UNCHANGED <<listerVars, titles, formatVars, downloadVars>>
    /\ pc = "search_query"
    /\ \E info \in SearchResponses :
         LET step == SearchQueryStep(info)
         IN  /\ probes' = Append(probes, SearchCall(channel_name, info))
             /\ channel_url' = step.url
             /\ pc' = step.goto
             /\ url_index' = IF step.goto = "pattern" THEN 1 ELSE url_index
    /\ UNCHANGED <<handler, search_term, channel_name, gcv_return, videos,
                    previous_videos>>

\* line 163: the probe of the search-derived candidate
SearchProbe ==
    /\ UNCHANGED <<listerVars, titles, formatVars, downloadVars>>
    /\ pc = "search_probe"
    /\ \E info \in ProbeResponses :
         LET outcome == GetVideosFromUrl(info, MaxResultsMain)
             step == SearchProbeStep(outcome)
         IN  /\ probes' = Append(probes, ListCall(channel_url, outcome))
             /\ IF step.goto = "return"
                THEN ReturnToCaller(step.value)
                ELSE /\ pc' = "pattern"
                     /\ url_index' = 1
                     /\ UNCHANGED <<handler, search_term, channel_name, channel_url,
                                    gcv_return, videos, previous_videos>>

\* lines 175-183: one round of the loop over possible_urls; after the last
\* round, return []
PatternProbe ==
    /\ UNCHANGED <<listerVars, titles, formatVars, downloadVars>>
    /\ pc = "pattern"
    /\ \E info \in ProbeResponses :
         LET url == PossibleUrls(channel_name)[url_index]
             outcome == GetVideosFromUrl(info, MaxResultsMain)
             step == PatternProbeStep(outcome)
         IN  /\ probes' = Append(probes, ListCall(url, outcome))
             /\ IF step.goto = "return"
                THEN ReturnToCaller(step.value)
                ELSE IF url_index = Len(PossibleUrls(channel_name))
                     THEN ReturnToCaller(ListOutcome(<<>>))
                     ELSE /\ url_index' = url_index + 1
                          /\ UNCHANGED <<pc, handler, search_term, channel_name,
                                         channel_url, gcv_return, videos,
                                         previous_videos>>

\* lines 335-353: a quick-select button; the preset URL is listed first
QuickSearch ==
    /\ UNCHANGED <<listerVars, titles, formatVars, downloadVars>>
    /\ pc = "idle"
    /\ \E q \in QuickChannels, info \in ProbeResponses :
         LET outcome == GetVideosFromUrl(info, MaxResultsMain)
         IN  /\ probes' = <<ListCall(q.channel_url, outcome)>>
             /\ IF outcome.kind = "raise"
                THEN \* line 351: except, no fallback
                     /\ videos' = NoneOutcome
                     /\ channel_name' = <<>>
                     /\ UNCHANGED pc
                ELSE IF ~HasVideos(outcome)
                     THEN \* line 340
                          /\ channel_name' = q.fallback_name
                          /\ pc' = "search_query"
                          /\ UNCHANGED videos
                     ELSE /\ videos' = outcome
                          /\ channel_name' = <<>>
                          /\ UNCHANGED pc
    /\ handler' = "quick"
    /\ search_term' = <<>>
    /\ channel_url' = <<>>
    /\ gcv_return' = Pending
    /\ previous_videos' = videos
    /\ UNCHANGED url_index

NextResolve ==
    \/ SearchFreeText
    \/ SearchUrl
    \/ SearchQuery
    \/ SearchProbe
    \/ PatternProbe
    \/ QuickSearch

SpecResolve == InitResolve /\ [][NextResolve]_vars

(***************************************************************************)
(* Download orchestrator: the two hooks (lines 86-116), download_video     *)
(* (lines 240-272) and the batch loop of main (lines 401-457).             *)
(***************************************************************************)
\* An optional number of a backend dict: <<>> when the key is missing or None.
OrZero(v) == IF v = <<>> THEN 0 ELSE v[1]             \* `v or 0`

\* The dicts yt-dlp hands to a progress hook and to a postprocessor hook.
ProgressDict(status, downloaded, total, estimate, speed, eta) ==
    [hook |-> "progress", status |-> status, postprocessor |-> None,
     downloaded_bytes |-> downloaded, total_bytes |-> total,
     total_bytes_estimate |-> estimate, speed |-> speed, eta |-> eta]
PostprocessorDict(status, pp) ==
    [hook |-> "postprocessor", status |-> status, postprocessor |-> pp,
     downloaded_bytes |-> <<>>, total_bytes |-> <<>>,
     total_bytes_estimate |-> <<>>, speed |-> <<>>, eta |-> <<>>]

\* The byte counts are chosen so that downloaded / total * 100 is a whole
\* number, as the float the code computes is.
ProgressDicts ==
    { ProgressDict("downloading", <<1>>, <<4>>, <<>>, <<5>>, <<3>>),
      ProgressDict("downloading", <<2>>, <<>>, <<2>>, <<>>, <<>>),
      ProgressDict("downloading", <<>>, <<0>>, <<>>, <<>>, <<>>),
      ProgressDict("finished", <<4>>, <<4>>, <<>>, <<>>, <<>>),
      ProgressDict("error", <<>>, <<>>, <<>>, <<>>, <<>>) }
PostprocessorDicts ==
    { PostprocessorDict(st, pp) :
        st \in {"started", "finished"}, pp \in {"FFmpegExtractAudio", "MoveFiles"} }

\* The values of the status cell.
NoProgress == [unset |-> TRUE]                          \* None, line 58
StatusOnly(status) == [status |-> status]
Downloading0 == [status |-> "downloading", percent |-> 0]     \* line 252

\* ProgressHook taking the end of the transfer for the end of the download
ProgressHookCompletes(cell, status_dict) ==
    IF status_dict.status = "finished" THEN StatusOnly("completed") ELSE cell

\* lines 86-107
ProgressHook(cell, status_dict) ==
    IF status_dict.status = "downloading"
    THEN LET downloaded == OrZero(status_dict.downloaded_bytes)
             total == IF OrZero(status_dict.total_bytes) # 0
                      THEN status_dict.total_bytes[1]
                      ELSE OrZero(status_dict.total_bytes_estimate)
             percent == IF total # 0 THEN (downloaded * 100) \div total ELSE 0
         IN  [percent |-> percent, speed |-> status_dict.speed,
              eta |-> status_dict.eta, downloaded |-> downloaded, total |-> total]
    ELSE IF status_dict.status = "finished" THEN StatusOnly("converting")
    ELSE IF status_dict.status = "error" THEN StatusOnly("error")
    ELSE cell

\* PostprocessorHook updating the dict of the cell in place of replacing it
PostprocessorHookMerging(cell, pp_dict) ==
    LET audio == pp_dict.postprocessor = "FFmpegExtractAudio"
        merged(status) == [f \in DOMAIN cell \cup {"status"} |->
                              IF f = "status" THEN status ELSE cell[f]]
    IN  IF pp_dict.status = "started" /\ audio THEN merged("converting")
        ELSE IF pp_dict.status = "finished" /\ audio THEN merged("completed")
        ELSE cell

\* lines 109-116
PostprocessorHook(cell, pp_dict) ==
    IF pp_dict.status = "started" /\ pp_dict.postprocessor = "FFmpegExtractAudio"
    THEN StatusOnly("converting")
    ELSE IF pp_dict.status = "finished" /\ pp_dict.postprocessor = "FFmpegExtractAudio"
         THEN StatusOnly("completed")
         ELSE cell

\* The download directory is a set of [name, mtime]; a write gives the file
\* the latest mtime.
DownloadDir == "downloads/"
Mp3 == ".mp3"
NoPath == <<>>                                        \* download_video's None
Exists(dir, name) == \E f \in dir : f.name = name
Newest(dir) == IF dir = {} THEN 0 ELSE CHOOSE m \in {f.mtime : f \in dir} :
                                           \A f \in dir : f.mtime <= m
Write(dir, name) ==
    {f \in dir : f.name # name} \cup {[name |-> name, mtime |-> Newest(dir) + 1]}
EndsWith(name, suffix) == name # <<>> /\ name[Len(name)] = suffix
Join(name) == <<DownloadDir>> \o name                 \* os.path.join
Basename(path) == Tail(path)                          \* os.path.basename

\* ResolvePaths without the fallback of lines 264-268
ResolvePathsNoFallback(dir, safe_title) ==
    IF Exists(dir, safe_title \o <<Mp3>>) THEN {Join(safe_title \o <<Mp3>>)} ELSE {NoPath}

\* lines 259-269: the values download_video can return once the backend call
\* has returned (files of equal mtime sort in either order)
ResolvePaths(dir, safe_title) ==
    LET expected_path == safe_title \o <<Mp3>>
        mp3_files == {f \in dir : EndsWith(f.name, Mp3)}
    IN  IF Exists(dir, expected_path) THEN {Join(expected_path)}
        ELSE IF mp3_files # {}
             THEN {Join(f.name) : f \in {g \in mp3_files : g.mtime = Newest(mp3_files)}}
             ELSE {NoPath}

\* ExceptionOutcome without the except of lines 270-272
ExceptionPropagates == [propagated |-> TRUE, result |-> NoPath]

\* lines 270-272: an exception of the backend call is caught, None returned
ExceptionOutcome == [propagated |-> FALSE, result |-> NoPath]

\* What the backend leaves in the directory during one call: nothing, the
\* file the output template names, or a file of another name.
OtherName == <<"o", "t", "h", "e", "r", Mp3>>
WriteChoices(safe_title) == {<<>>, safe_title \o <<Mp3>>, OtherName}
AfterWrite(dir, name) == IF name = <<>> THEN dir ELSE Write(dir, name)

\* The directory before the batch: empty, or holding files of earlier runs.
OldName == <<"o", "l", "d", Mp3>>
InitialDirs ==
    { {},
      {[name |-> OldName, mtime |-> 1]},
      {[name |-> <<"a", ".webm">>, mtime |-> 1]},
      {[name |-> OldName, mtime |-> 1], [name |-> OtherName, mtime |-> 1]} }

\* The listings the session can hold when the batch starts.
Listings ==
    { GetVideosFromUrl(WithEntries(<<EntryA, EntryB, EntryC>>), MaxResultsMain),
      GetVideosFromUrl(WithEntries(<<EntryNoId, EntryC, EntryA>>), MaxResultsMain) }

\* Ticked taking every box for ticked
TickedAll(listing, i, boxes) == SubSeq(listing, i, Len(listing))

RECURSIVE Ticked(_, _, _)
\* lines 406-416: the records of the listing from position i on whose
\* checkbox is ticked
Ticked(listing, i, boxes) ==
    IF i > Len(listing) THEN <<>>
    ELSE (IF i \in boxes THEN <<listing[i]>> ELSE <<>>) \o Ticked(listing, i + 1, boxes)

InitDownload ==
    /\ videos \in Listings
    /\ files \in InitialDirs
    /\ dpc = "idle"
    /\ checked = {}
    /\ selected_videos = <<>>
    /\ idx = 0
    /\ progress = NoProgress
    /\ events = <<>>
    /\ attempts = <<>>
    /\ downloaded_files_list = <<>>
    /\ ListerOff
    /\ titles = <<>>
    /\ FormatOff
    /\ ResolverOff

\* lines 401-440: boxes are ticked and the download button is pressed
ClickDownload ==
    /\ dpc = "idle"
    /\ HasVideos(videos)
    /\ \E boxes \in SUBSET (1..Len(videos.videos)) :
         /\ Ticked(videos.videos, 1, boxes) # <<>>
         /\ checked' = boxes
         /\ selected_videos' = Ticked(videos.videos, 1, boxes)
    /\ idx' = 1
    /\ downloaded_files_list' = <<>>
    /\ dpc' = "next"
    /\ UNCHANGED <<progress, events, files, attempts>>
    /\ UNCHANGED <<listerVars, titles, formatVars, resolverVars, videos>>

\* lines 442-446 and 251-258: the loop calls download_video, which resets
\* the status cell and enters the backend call
BeginDownload ==
    /\ dpc = "next"
    /\ progress' = Downloading0
    /\ attempts' = Append(attempts,
                          [url |-> selected_videos[idx].url,
                           title |-> selected_videos[idx].title,
                           backend |-> "running", wrote |-> <<>>,
                           propagated |-> FALSE, result |-> NoPath])
    /\ events' = <<>>
    /\ dpc' = "backend"
    /\ UNCHANGED <<checked, selected_videos, idx, files, downloaded_files_list>>
    /\ UNCHANGED <<listerVars, titles, formatVars, resolverVars, videos>>

\* the backend calls _progress_hook
DeliverProgress ==
    /\ dpc = "backend"
    /\ Len(events) < MaxEvents
    /\ \E status_dict \in ProgressDicts :
         /\ progress' = ProgressHook(progress, status_dict)
         /\ events' = Append(events, status_dict)
    /\ UNCHANGED <<dpc, checked, selected_videos, idx, files, attempts, downloaded_files_list>>
    /\ UNCHANGED <<listerVars, titles, formatVars, resolverVars, videos>>

\* the backend calls _postprocessor_hook
DeliverPostprocess ==
    /\ dpc = "backend"
    /\ Len(events) < MaxEvents
    /\ \E pp_dict \in PostprocessorDicts :
         /\ progress' = PostprocessorHook(progress, pp_dict)
         /\ events' = Append(events, pp_dict)
    /\ UNCHANGED <<dpc, checked, selected_videos, idx, files, attempts, downloaded_files_list>>
    /\ UNCHANGED <<listerVars, titles, formatVars, resolverVars, videos>>

\* download_video hands `outcome` back to the loop of main, lines 448-454,
\* which goes on with the next selected video; the call is logged with the
\* file the backend wrote (<<>> for none)
EndDownload(how, name, outcome) ==
    LET video == selected_videos[idx]
    IN  /\ attempts' = [attempts EXCEPT ![Len(attempts)] =
                           [@ EXCEPT !.backend = how,
                                     !.wrote = name,
                                     !.propagated = outcome.propagated,
                                     !.result = outcome.result]]
        /\ downloaded_files_list' =
              IF ~outcome.propagated /\ outcome.result # NoPath
              THEN Append(downloaded_files_list,
                          [title |-> NormalizeVisibleText(video.title),
                           path |-> outcome.result,
                           filename |-> Basename(outcome.result)])
              ELSE downloaded_files_list
        /\ idx' = idx + 1
        /\ events' = <<>>
        /\ dpc' = IF outcome.propagated \/ idx = Len(selected_videos)
                  THEN "done" ELSE "next"

\* line 258 returns; lines 259-269 resolve the output path
BackendReturns ==
    /\ dpc = "backend"
    /\ LET safe_title == MakeFilesafeTitle(selected_videos[idx].title)
       IN  \E name \in WriteChoices(safe_title) :
             /\ files' = AfterWrite(files, name)
             /\ \E path \in ResolvePaths(AfterWrite(files, name), safe_title) :
                  EndDownload("returned", name, [propagated |-> FALSE, result |-> path])
    /\ UNCHANGED <<checked, selected_videos, progress>>
    /\ UNCHANGED <<listerVars, titles, formatVars, resolverVars, videos>>

\* line 258 raises; lines 270-272
BackendRaises ==
    /\ dpc = "backend"
    /\ LET safe_title == MakeFilesafeTitle(selected_videos[idx].title)
       IN  \E name \in WriteChoices(safe_title) :
             /\ files' = AfterWrite(files, name)
             /\ EndDownload("raised", name, ExceptionOutcome)
    /\ UNCHANGED <<checked, selected_videos, progress>>
    /\ UNCHANGED <<listerVars, titles, formatVars, resolverVars, videos>>

NextDownload ==
    \/ ClickDownload
    \/ BeginDownload
    \/ DeliverProgress
    \/ DeliverPostprocess
    \/ BackendReturns
    \/ BackendRaises

SpecDownload == InitDownload /\ [][NextDownload]_vars

(***************************************************************************)
(* The lister called on its own.                                           *)
(***************************************************************************)
InitLister ==
    /\ channel_info \in ListResponses
    /\ max_results \in 0..MaxResultsArg
    /\ listed = Pending
    /\ titles = <<>>
    /\ FormatOff
    /\ ResolverOff
    /\ videos = NoneOutcome
    /\ DownloadOff

CallLister ==
    /\ listed = Pending
    /\ listed' = GetVideosFromUrl(channel_info, max_results)
    /\ UNCHANGED <<channel_info, max_results, titles, formatVars, resolverVars, videos, downloadVars>>

NextLister == CallLister

SpecLister == InitLister /\ [][NextLister]_vars

(***************************************************************************)
(* The sanitizer called on its own, also on its own output.                *)
(***************************************************************************)
InitSanitize ==
    /\ titles \in {<<t>> : t \in TitleInputs}
    /\ ListerOff
    /\ FormatOff
    /\ ResolverOff
    /\ videos = NoneOutcome
    /\ DownloadOff

CallSanitize ==
    /\ Len(titles) <= MaxApply
    /\ titles' = Append(titles, MakeFilesafeTitle(titles[Len(titles)]))
    /\ UNCHANGED <<listerVars, formatVars, resolverVars, videos, downloadVars>>

NextSanitize == CallSanitize

SpecSanitize == InitSanitize /\ [][NextSanitize]_vars

(***************************************************************************)
(* The duration formatter called on its own.                               *)
(***************************************************************************)
InitFormat ==
    /\ seconds \in DurationInputs
    /\ duration_str = <<>>
    /\ ListerOff
    /\ titles = <<>>
    /\ ResolverOff
    /\ videos = NoneOutcome
    /\ DownloadOff

CallFormat ==
    /\ duration_str = <<>>
    /\ duration_str' = FormatDuration(seconds)
    /\ UNCHANGED <<seconds, listerVars, titles, resolverVars, videos, downloadVars>>

NextFormat == CallFormat

SpecFormat == InitFormat /\ [][NextFormat]_vars

(***************************************************************************)
(* Properties of the channel resolver.                                     *)
(***************************************************************************)
\* The backend calls get_channel_videos itself made in this handler run: the
\* quick-select handler lists its preset URL before it calls.
GcvEntered == pc \in {"search_query", "search_probe", "pattern"} \/ gcv_return # Pending
GcvCalls == IF handler = "quick" THEN Tail(probes) ELSE probes
GcvReturned == pc = "idle" /\ gcv_return # Pending
IsListCall(c) == c.call = "list"
GcvProbes == SelectSeq(GcvCalls, IsListCall)

\* The candidates in the order stated: the search-derived URL, if one was
\* built, then the handle, custom-name, username and channel-id forms.
PatternsInOrder(name) ==
    << <<YouTube, "@">> \o name \o <<VideosSuffix>>,
       <<YouTube, "c/">> \o name \o <<VideosSuffix>>,
       <<YouTube, "user/">> \o name \o <<VideosSuffix>>,
       <<YouTube, "channel/">> \o name \o <<VideosSuffix>> >>
CandidatesInOrder ==
    (IF channel_url # <<>> THEN <<channel_url>> ELSE <<>>) \o PatternsInOrder(channel_name)

\* C1: for free-text input the probes made are, in order, a prefix of the
\* fixed candidate order (search-derived URL, handle, custom-name, username,
\* channel-id form), all after the one search query; a probe that yields at
\* least one record is the last one made, and get_channel_videos returns
\* exactly the records it yielded; records returned always come from the
\* last probe.
C1_FixedOrderFirstSuccess ==
    GcvEntered =>
        /\ \A i \in 1..Len(GcvCalls) : (GcvCalls[i].call = "search") <=> (i = 1)
        /\ Len(GcvProbes) <= Len(CandidatesInOrder)
        /\ \A i \in 1..Len(GcvProbes) : GcvProbes[i].arg = CandidatesInOrder[i]
        /\ \A i \in 1..Len(GcvProbes) :
              HasVideos(GcvProbes[i].outcome) =>
                  /\ i = Len(GcvProbes)
                  /\ GcvReturned
                  /\ gcv_return = GcvProbes[i].outcome
        /\ (GcvReturned /\ HasVideos(gcv_return)) =>
              /\ GcvProbes # <<>>
              /\ gcv_return = GcvProbes[Len(GcvProbes)].outcome

\* C1 witness: the search-derived candidate and the handle form were probed
\* without records, the custom-name form yielded records and was returned.
C1_Witness ==
    /\ GcvReturned
    /\ handler = "search"
    /\ Len(GcvProbes) = 3
    /\ GcvProbes[1].arg = channel_url
    /\ GcvProbes[3].arg = PatternsInOrder(channel_name)[2]
    /\ HasVideos(gcv_return)

\* C2: get_channel_videos returns no records only after the search-derived
\* candidate (if one was built) and all four pattern URLs have been probed,
\* each without records.
C2_NotFoundOnlyAfterExhaustion ==
    (GcvReturned /\ ~HasVideos(gcv_return)) =>
        /\ Len(GcvProbes) = Len(CandidatesInOrder)
        /\ \A i \in 1..Len(GcvProbes) :
              /\ GcvProbes[i].arg = CandidatesInOrder[i]
              /\ ~HasVideos(GcvProbes[i].outcome)

\* C4: no error leaves get_channel_videos; after a call that raised, the
\* next candidate of the fixed order is probed (the search query and the
\* search-derived probe are followed by the handle form, a pattern by the
\* next pattern, the last pattern by the return of the empty list); and
\* when the search-derived probe raised and the second pattern probe yields
\* 2 records, those 2 records are returned.
C4_ProbesIsolated ==
    GcvEntered =>
        LET offset == IF channel_url # <<>> THEN 1 ELSE 0
            last == Len(CandidatesInOrder)
        IN
        /\ gcv_return.kind # "raise"
        /\ (GcvCalls # <<>> /\ GcvCalls[1].outcome.kind = "raise") =>
              /\ channel_url = <<>>
              /\ IF Len(GcvCalls) = 1
                 THEN pc = "pattern" /\ url_index = 1
                 ELSE GcvCalls[2] = GcvProbes[1]
        /\ \A i \in 1..Len(GcvProbes) :
              GcvProbes[i].outcome.kind = "raise" =>
                  IF i = last
                  THEN GcvReturned /\ gcv_return = ListOutcome(<<>>)
                  ELSE IF i = Len(GcvProbes)
                       THEN pc = "pattern" /\ url_index = i + 1 - offset
                       ELSE GcvProbes[i + 1].arg = CandidatesInOrder[i + 1]
        /\ ( /\ Len(GcvProbes) >= 3
             /\ offset = 1
             /\ GcvProbes[1].outcome.kind = "raise"
             /\ GcvProbes[3].outcome.kind = "list"
             /\ Len(GcvProbes[3].outcome.videos) = 2 )
           => (GcvReturned /\ gcv_return = GcvProbes[3].outcome)

\* C4 witness: the search-derived probe raised, the handle form raised too,
\* the custom-name form yielded 2 records, which were returned.
C4_Witness ==
    /\ GcvReturned
    /\ Len(GcvProbes) = 3
    /\ GcvProbes[1].arg = channel_url
    /\ GcvProbes[1].outcome.kind = "raise"
    /\ GcvProbes[2].outcome.kind = "raise"
    /\ GcvProbes[3].arg = PatternsInOrder(channel_name)[2]
    /\ Len(gcv_return.videos) = 2
    /\ videos = gcv_return

\* C5: a search whose input is shaped as a URL makes exactly one backend
\* call, the listing of that literal URL; it makes no search query, probes
\* no pattern, does not enter get_channel_videos, and ends with the outcome
\* of that one listing, whatever it is.
C5_UrlInputTerminal ==
    (handler = "search" /\ StartsWith(search_term, "http")) =>
        /\ pc = "idle"
        /\ gcv_return = Pending
        /\ Len(probes) = 1
        /\ probes[1].call = "list"
        /\ probes[1].arg = search_term
        /\ videos = SessionVideos(probes[1].outcome)

\* C5 witness: a URL was searched and its listing raised.
C5_Witness ==
    /\ handler = "search"
    /\ StartsWith(search_term, "http")
    /\ Len(probes) = 1
    /\ probes[1].outcome.kind = "raise"
    /\ videos = NoneOutcome

\* the handler that ran last has run to its end
HandlerEnded == pc = "idle" /\ handler # "none"

\* C18: in the quick-select handler, when the direct probe of the preset
\* URL gives no records, by listing none or by raising, get_channel_videos
\* is called with the preset's channel name before the handler ends with a
\* not-found or error message.
C18_QuickSelectFallsBack ==
    (HandlerEnded /\ handler = "quick" /\ ~HasVideos(probes[1].outcome)) =>
        /\ gcv_return # Pending
        /\ Len(probes) > 1
        /\ \E q \in QuickChannels : channel_name = q.fallback_name

\* C19: after any sequence of searches and quick-selects the session's
\* listing is None or a non-empty list of records, the one the last backend
\* listing of the most recent handler run produced; a handler run that found
\* nothing or failed leaves None, whatever listing was there before.
C19_ListingFreshOrAbsent ==
    /\ videos.kind \in {"none", "list"}
    /\ (videos.kind = "list") = (videos.videos # <<>>)
    /\ HandlerEnded =>
          /\ probes # <<>>
          /\ LET last == probes[Len(probes)]
             IN  /\ last.call = "list"
                 /\ IF last.outcome.kind = "list" /\ last.outcome.videos # <<>>
                    THEN videos = last.outcome
                    ELSE videos = NoneOutcome

\* C19 witness: a free-text search that found nothing after five backend
\* calls has cleared the listing an earlier resolution had left.
C19_Witness ==
    /\ HandlerEnded
    /\ handler = "search"
    /\ previous_videos.kind = "list"
    /\ previous_videos.videos # <<>>
    /\ Len(probes) = 5
    /\ videos = NoneOutcome

(***************************************************************************)
(* Properties of the video lister.                                         *)
(***************************************************************************)
\* C3: the records returned carry the index values 1..N in order, N being
\* the number of records returned.
C3_IndicesDense ==
    listed.kind = "list" =>
        \A k \in 1..Len(listed.videos) : listed.videos[k].index = k

\* C10: a listing the backend reports with zero entries makes
\* _get_videos_from_url return the empty sequence.
C10_ZeroEntriesGiveEmptySequence ==
    (listed # Pending /\ channel_info = WithEntries(<<>>)) => listed = ListOutcome(<<>>)

\* C11: no record returned by _get_videos_from_url has an empty or absent
\* id: a backend entry without an id gives no record, and the id of every
\* returned record is the id of the backend entry it was built from (the
\* entry at the record's enumerate position).
C11_RecordsHaveTheirEntrysId ==
    /\ \A k \in 1..Len(listed.videos) :
          LET record == listed.videos[k]
          IN  /\ record.id \notin {None, EmptyStr}
              /\ record.index \in 1..Len(channel_info.entries)
              /\ record.id = channel_info.entries[record.index].id
    /\ \A k \in 1..Len(channel_info.entries) :
          channel_info.entries[k].id \in {None, EmptyStr}
              => \A j \in 1..Len(listed.videos) : listed.videos[j].index # k

C11_Witness ==
    /\ listed.kind = "list"
    /\ max_results = 3
    /\ channel_info.entries = <<EntryNoId, EntryEmptyId, EntryA>>
    /\ Len(listed.videos) = 1
    /\ listed.videos[1].id = "a"

\* C15: for every backend entry list and every max_results >= 0,
\* _get_videos_from_url returns at most max_results records, and they are
\* the records of those among the first max_results backend entries that
\* have an id, in the backend's order.
FirstEntriesWithId ==
    LET n == IF max_results < Len(channel_info.entries)
             THEN max_results ELSE Len(channel_info.entries)
        first == [k \in 1..n |-> channel_info.entries[k]]
    IN  SelectSeq(first, LAMBDA entry : entry.id \notin {None, EmptyStr})

C15_FirstMaxResultsEntriesWithId ==
    (listed # Pending /\ channel_info.kind = "entries") =>
        /\ Len(listed.videos) <= max_results
        /\ Len(listed.videos) = Len(FirstEntriesWithId)
        /\ \A k \in 1..Len(listed.videos) :
              /\ listed.videos[k].id = FirstEntriesWithId[k].id
              /\ listed.videos[k].duration \in {0, FirstEntriesWithId[k].duration}

C15_Witness ==
    /\ listed.kind = "list"
    /\ max_results = 2
    /\ channel_info.entries = <<EntryNoId, EntryB, EntryA>>
    /\ Len(listed.videos) = 1
    /\ listed.videos[1].id = "b"

(***************************************************************************)
(* Properties of the filename sanitizer.                                   *)
(***************************************************************************)
\* C9: sanitizing a sanitized title changes nothing.
C9_Idempotent ==
    Len(titles) >= 3 => titles[3] = titles[2]

\* C12: for every title, the empty one and those made only of whitespace,
\* periods or forbidden characters included, _make_filesafe_title returns a
\* non-empty string of at most 150 characters; a title of which nothing is
\* left after stripping gives the literal "audio".
OnlyOf(title, chars) == \A k \in 1..Len(title) : title[k] \in chars

C12_NonEmptyAtMost150 ==
    /\ \A i \in 2..Len(titles) : titles[i] # <<>> /\ Len(titles[i]) <= 150
    /\ Len(titles) >= 2 =>
          /\ OnlyOf(titles[1], {" ", "?", "CTL", "MARK"}) => titles[2] = Audio
          /\ OnlyOf(titles[1], {"."}) => titles[2] = Audio
          /\ titles[2] # Audio => \E k \in 1..Len(titles[1]) : titles[1][k] \in {"a", "BOLD_A", "."}

C12_Witness ==
    /\ Len(titles) >= 2
    /\ titles[1] = <<"?", " ", ".">>
    /\ titles[2] = Audio

\* C13: for every title, the output of _make_filesafe_title holds none of
\* the characters < > : " / \ | ? * and no character below the space.
C13_NoForbiddenNoControl ==
    \A i \in 2..Len(titles) : \A k \in 1..Len(titles[i]) : titles[i][k] \notin {"?", "CTL"}

C13_Witness ==
    /\ Len(titles) >= 2
    /\ titles[1] = <<"a", "?", "CTL">>
    /\ titles[2] = <<"a">>

(***************************************************************************)
(* Properties of the duration formatter.                                   *)
(***************************************************************************)
\* the number a string of decimal digits stands for
DigitValue(c) == CHOOSE d \in 0..9 : Digits[d + 1] = c
IsDigits(ds) == ds # <<>> /\ \A k \in 1..Len(ds) : \E d \in 0..9 : Digits[d + 1] = ds[k]
RECURSIVE Value(_)
Value(ds) ==
    IF ds = <<>> THEN 0
    ELSE 10 * Value(SubSeq(ds, 1, Len(ds) - 1)) + DigitValue(ds[Len(ds)])
\* a number written without a leading zero
Plain(ds) == IsDigits(ds) /\ (Len(ds) > 1 => ds[1] # "0")
\* a number written with two digits
TwoDigits(ds) == IsDigits(ds) /\ Len(ds) = 2
\* the pieces of str between its colons
Colons(str) == {k \in 1..Len(str) : str[k] = ":"}
Piece(str, from, to) == SubSeq(str, from + 1, to - 1)

\* C16: format_duration maps an absent or zero duration to the 'unknown'
\* literal, and a positive whole number of seconds s to M:SS when s < 3600
\* and to H:MM:SS otherwise, with H = s div 3600, MM = (s mod 3600) div 60
\* and SS = s mod 60, MM and SS written with two digits; 65 gives 1:05 and
\* 3725 gives 1:02:05.
C16_DurationLayout ==
    duration_str # <<>> =>
        IF seconds = NoSeconds \/ seconds = <<0>>
        THEN duration_str = UnknownDuration
        ELSE LET s == seconds[1]
                 colons == Colons(duration_str)
                 end == Len(duration_str) + 1
             IN  /\ s < 3600 =>
                       /\ Cardinality(colons) = 1
                       /\ LET c == First(colons)
                               M == Piece(duration_str, 0, c)
                               SS == Piece(duration_str, c, end)
                           IN  /\ Plain(M) /\ Value(M) = (s % 3600) \div 60
                               /\ TwoDigits(SS) /\ Value(SS) = s % 60
                 /\ s >= 3600 =>
                       /\ Cardinality(colons) = 2
                       /\ LET c == First(colons)
                               d == Last(colons)
                               H == Piece(duration_str, 0, c)
                               MM == Piece(duration_str, c, d)
                               SS == Piece(duration_str, d, end)
                           IN  /\ Plain(H) /\ Value(H) = s \div 3600
                               /\ TwoDigits(MM) /\ Value(MM) = (s % 3600) \div 60
                               /\ TwoDigits(SS) /\ Value(SS) = s % 60
                 /\ s = 65 => duration_str = <<"1", ":", "0", "5">>
                 /\ s = 3725 => duration_str = <<"1", ":", "0", "2", ":", "0", "5">>

C16_Witness ==
    /\ seconds = <<3725>>
    /\ duration_str = <<"1", ":", "0", "2", ":", "0", "5">>

(***************************************************************************)
(* Properties of the download orchestrator.                                *)
(***************************************************************************)
LastEvent == events[Len(events)]
IsAudio(e, status) ==
    e.hook = "postprocessor" /\ e.status = status /\ e.postprocessor = "FFmpegExtractAudio"
IsTransfer(e) == e.hook = "progress" /\ e.status = "downloading"
TransferFields == {"percent", "speed", "eta", "downloaded", "total"}

\* C6: during a download, after each event the status cell is the
\* translation of that event alone: after a transfer 'downloading' event it
\* holds exactly percent, speed, eta, downloaded and total, computed from
\* that event; after an audio post-process 'started' event it is exactly
\* {status: converting}; after an audio post-process 'finished' event it is
\* exactly {status: completed}; and the cell never holds the fields of a
\* transfer event together with a status.
C6_StatusOverwritten ==
    /\ DOMAIN progress \in {{"unset"}, {"status"}, {"status", "percent"}, TransferFields}
    /\ (dpc = "backend" /\ events # <<>>) =>
          /\ IsAudio(LastEvent, "started") => progress = [status |-> "converting"]
          /\ IsAudio(LastEvent, "finished") => progress = [status |-> "completed"]
          /\ IsTransfer(LastEvent) =>
                /\ DOMAIN progress = TransferFields
                /\ progress.speed = LastEvent.speed
                /\ progress.eta = LastEvent.eta
                /\ progress.downloaded = OrZero(LastEvent.downloaded_bytes)
                /\ progress.total \in {OrZero(LastEvent.total_bytes),
                                       OrZero(LastEvent.total_bytes_estimate)}
                /\ progress.total * progress.percent = progress.downloaded * 100

\* C6 witness: a transfer event was followed by the audio 'started' event,
\* and the cell holds the status converting alone.
C6_Witness ==
    /\ dpc = "backend"
    /\ Len(events) = 2
    /\ IsTransfer(events[1])
    /\ events[1].downloaded_bytes = <<1>>
    /\ IsAudio(events[2], "started")
    /\ progress = [status |-> "converting"]

\* The download_video call that ended last, seen before the next one starts
\* (the directory is as the call left it).
CallEnded == dpc \in {"next", "done"} /\ attempts # <<>>
LastCall == attempts[Len(attempts)]
Mp3Files == {f \in files : f.name[Len(f.name)] = Mp3}
Recorded(path) == \E i \in 1..Len(downloaded_files_list) : downloaded_files_list[i].path = path

\* C7: when the backend call returned without error, download_video returns
\* <directory>/<sanitized title>.mp3 if that file exists; otherwise, if the
\* directory holds any .mp3 file, a most recently modified one; otherwise no
\* path, and the download is not recorded as done.
C7_OutputPathResolution ==
    (CallEnded /\ LastCall.backend = "returned") =>
        LET expected == MakeFilesafeTitle(LastCall.title) \o <<Mp3>>
        IN  IF \E f \in files : f.name = expected
            THEN LastCall.result = <<DownloadDir>> \o expected
            ELSE IF Mp3Files # {}
                 THEN \E f \in Mp3Files :
                        /\ \A g \in Mp3Files : g.mtime <= f.mtime
                        /\ LastCall.result = <<DownloadDir>> \o f.name
                 ELSE /\ LastCall.result = NoPath
                      /\ ~Recorded(LastCall.result)

\* C7 witness: the backend returned and left a file of another name, which
\* download_video returned as the most recent .mp3 file.
C7_Witness ==
    /\ CallEnded
    /\ LastCall.backend = "returned"
    /\ ~\E f \in files : f.name = MakeFilesafeTitle(LastCall.title) \o <<Mp3>>
    /\ LastCall.result = <<DownloadDir>> \o OtherName
    /\ \E f \in files : f.name = OldName

\* C8: in a batch the download_video calls made are the selected videos, in
\* order, each once, one call ending before the next starts; a call whose
\* backend call raised returns no path and raises nothing; when the batch is
\* over every selected video has been attempted; and the files recorded as
\* downloaded are, in order, the paths the calls returned.
C8_BatchFailuresIsolated ==
    /\ Len(attempts) <= Len(selected_videos)
    /\ \A i \in 1..Len(attempts) :
          /\ attempts[i].url = selected_videos[i].url
          /\ attempts[i].title = selected_videos[i].title
          /\ (i < Len(attempts)) => attempts[i].backend # "running"
          /\ ~attempts[i].propagated
          /\ (attempts[i].backend = "raised") => attempts[i].result = NoPath
    /\ (dpc = "done") =>
          /\ Len(attempts) = Len(selected_videos)
          /\ \A i \in 1..Len(attempts) : attempts[i].backend \in {"returned", "raised"}
    /\ LET returned == SelectSeq(attempts, LAMBDA a : a.result # NoPath)
       IN  /\ Len(downloaded_files_list) = Len(returned)
           /\ \A i \in 1..Len(returned) : downloaded_files_list[i].path = returned[i].result

\* C8 witness: a batch of three is over; the backend raised for the first
\* video and for the second, and the third was downloaded.
C8_Witness ==
    /\ dpc = "done"
    /\ Len(selected_videos) = 3
    /\ attempts[1].backend = "raised"
    /\ attempts[2].backend = "raised"
    /\ attempts[3].backend = "returned"
    /\ attempts[3].result # NoPath
    /\ Len(downloaded_files_list) = 1

\* the i-th ticked position of the listing, counted from the top
NthChecked(i) == CHOOSE p \in checked : Cardinality({q \in checked : q < p}) = i - 1

\* C14: the videos passed to download_video in a batch are exactly the
\* ticked videos of the current listing, each once, in listing order, and
\* no video left unticked is downloaded; ticking items 1 and 3 of a listing
\* of three downloads item 1 and then item 3 and nothing else.
C14_SelectedInListingOrder ==
    /\ checked \subseteq 1..Len(videos.videos)
    /\ Len(attempts) <= Cardinality(checked)
    /\ \A i \in 1..Len(attempts) :
          /\ attempts[i].url = videos.videos[NthChecked(i)].url
          /\ attempts[i].title = videos.videos[NthChecked(i)].title
    /\ dpc = "done" => Len(attempts) = Cardinality(checked)
    /\ (dpc = "done" /\ checked = {1, 3}) =>
          /\ Len(attempts) = 2
          /\ attempts[1].url = videos.videos[1].url
          /\ attempts[2].url = videos.videos[3].url

C14_Witness ==
    /\ dpc = "done"
    /\ Len(videos.videos) = 3
    /\ checked = {1, 3}
    /\ Len(attempts) = 2
    /\ attempts[1].url = videos.videos[1].url
    /\ attempts[2].url = videos.videos[3].url
    /\ videos.videos[2].url # attempts[1].url
    /\ videos.videos[2].url # attempts[2].url

\* C17: within a batch, a path returned by download_video denotes a file
\* written by that same call; so a call whose backend call returned without
\* writing a file returns no path, and in particular never the file an
\* earlier item of the batch wrote.
C17_NoFileOfEarlierItem ==
    \A i \in 1..Len(attempts) :
        (attempts[i].backend = "returned" /\ attempts[i].wrote = <<>>) =>
            \A j \in 1..(i - 1) :
                attempts[j].wrote # <<>> =>
                    attempts[i].result # <<DownloadDir>> \o attempts[j].wrote

\* C20: every download_video call resets the status cell to 'downloading'
\* at 0 percent before any event of its backend call is delivered, so that
\* the status an earlier item ended with is not shown once the next download
\* has begun; and the cell holds 'completed' only through an audio
\* post-process 'finished' event, never through a transfer event.
C20_ResetThenCompletedByAudioOnly ==
    /\ (dpc = "backend" /\ events = <<>>) =>
          progress = [status |-> "downloading", percent |-> 0]
    /\ (dpc = "backend" /\ progress = [status |-> "completed"]) =>
          /\ events # <<>>
          /\ LastEvent.hook = "postprocessor"
          /\ \E i \in 1..Len(events) : IsAudio(events[i], "finished")

\* C20 witness: the first item was downloaded, the download of the second
\* has begun and no event of it has come yet.
C20_Witness ==
    /\ dpc = "backend"
    /\ Len(attempts) = 2
    /\ attempts[1].backend = "returned"
    /\ attempts[1].result # NoPath
    /\ events = <<>>
    /\ progress = [status |-> "downloading", percent |-> 0]

=============================================================================
